---------------------------- MODULE Spec2Model ----------------------------
(***************************************************************************)
(* Call-lifecycle orchestrator of mandolin-phone-num: PhoneNumberPool      *)
(* (phone_numbers.py), CompanyCallTracker and CallManager (controller.py), *)
(* CallRecord / Company (models.py), CallStatus (constants.py).            *)
(*                                                                         *)
(* Scheduling model.  The code runs on one asyncio event loop.  Acquiring  *)
(* a free asyncio.Lock does not suspend, and no lock is held across a      *)
(* suspension, so a coroutine runs without interleaving from one real      *)
(* suspension to the next.  The only suspension of the manager is the      *)
(* provider call (asyncio.sleep in _simulate_phone_call), so execute_call  *)
(* is two atomic steps: from entry up to the provider call, and from the   *)
(* provider's completion to the return.  schedule_call is one step.        *)
(*                                                                         *)
(* CallRecord objects live in `heap` (object identity matters:             *)
(* execute_call keeps a reference to its record in a local variable while  *)
(* _handle_failed_call / _reschedule_call look the record up again by id). *)
(***************************************************************************)
EXTENDS Integers, Sequences, FiniteSets, TLC

\* ------------------------------------------------------------------ bounds
\* last clock reading of a run (clock ticks, see TicksPerSecond)
MaxNow == 2
\* number of CallRecord objects ever created (accepted schedule_call calls)
MaxRecords == 2
\* number of execute_call coroutines that can be suspended at once
MaxTasks == 3
\* number of attempts executed in a run, over all records
MaxExecuted == 4

\* -------------------------------------------------------- program constants
\* clock ticks per second: datetime.now() is finer than the one-second
\* resolution of the '%Y%m%d%H%M%S' stamp of a call id
TicksPerSecond == 2
SecondsPerMinute == 60
\* CallRecord.max_attempts default
DefaultMaxAttempts == 3

SCHEDULED == "scheduled"
IN_PROGRESS == "in_progress"
SUCCESS == "success"
BUSY == "busy"
NO_ANSWER == "no_answer"
FAILED == "failed"
CallStatus == {SCHEDULED, IN_PROGRESS, SUCCESS, BUSY, NO_ANSWER, FAILED}

\* the statuses execute_call hands to _handle_failed_call
FailureStatuses == {BUSY, NO_ANSWER, FAILED}

\* notes is no dataclass field: the attribute does not exist until
\* _handle_failed_call sets it
NotesUnset == "<unset>"
MaxRetryNote == "Max retry attempts reached"

\* outbound_phone='' of a new record; acquire_phone returning None
NoPhone == ""

\* the pool the demonstration constructs the manager with
Phones == {"1111111111", "2222222222"}

\* Company objects (id, max_concurrent_calls); name and phone_number are
\* informational and never read by the core.  An id is its characters.
CompanyA == [id |-> <<"C", "O", "M", "P", "1">>, max_concurrent_calls |-> 2]
CompanyD == [id |-> <<"C", "O", "M", "P", "4">>, max_concurrent_calls |-> 1]
Companies == {CompanyA, CompanyD}
CompanyIds == {c.id : c \in Companies}

Tasks == 1..MaxTasks

VARIABLES
    now,                \* the clock datetime.now() reads, in ticks
    available_phones,   \* PhoneNumberPool.available_phones
    in_use_phones,      \* PhoneNumberPool.in_use_phones
    active_calls,       \* CompanyCallTracker.active_calls, 0 for a key it lacks
    active_calls_keys,  \* the keys the defaultdict active_calls holds
    heap,               \* the CallRecord objects, by object number
    call_records,       \* CallManager.call_records: call id -> object number
    call_history,       \* CallManager.call_history: company id -> objects
    call_history_keys,  \* the keys the defaultdict call_history holds
    tasks               \* the execute_call coroutines suspended in the provider

vars == <<now, available_phones, in_use_phones, active_calls,
          active_calls_keys, heap, call_records, call_history,
          call_history_keys, tasks>>

\* ------------------------------------------------------------ pure helpers
RECURSIVE Pow2(_)
Pow2(n) == IF n = 0 THEN 1 ELSE 2 * Pow2(n - 1)

\* timedelta(minutes=m) in clock ticks
Minutes(m) == m * SecondsPerMinute * TicksPerSecond

\* datetime.now().strftime('%Y%m%d%H%M%S'): the clock cut to whole seconds
Stamp(t) == t \div TicksPerSecond

\* str.endswith(ch) for a one-character suffix
EndsWith(id, ch) == Len(id) > 0 /\ id[Len(id)] = ch

\* f"CALL_{company.id}_{stamp}"
CallId(company, t) == <<company.id, Stamp(t)>>

CallIds == {<<c.id, s>> : c \in Companies, s \in 0..Stamp(MaxNow)}

\* a key the dict does not hold
Absent == 0

Objects == 1..Len(heap)

\* the keys of a defaultdict after d[key]: a missing key is inserted with
\* the default value
getitem(keys, key) == keys \cup {key}

\* ----------------------------------------------------- CompanyCallTracker
\* can_make_call accepting a company that is at its ceiling
can_make_call_at_ceiling(ac, company) ==
    ac[company.id] <= company.max_concurrent_calls

can_make_call(ac, company) ==
    ac[company.id] < company.max_concurrent_calls

\* increment_active_calls counting the call before it tests the ceiling
increment_active_calls_counts_refusal(ac, company) ==
    IF ac[company.id] < company.max_concurrent_calls
    THEN [ok |-> TRUE, active_calls |-> [ac EXCEPT ![company.id] = @ + 1]]
    ELSE [ok |-> FALSE, active_calls |-> [ac EXCEPT ![company.id] = @ + 1]]

\* increment_active_calls admitting a company that is at its ceiling
increment_active_calls_at_ceiling(ac, company) ==
    IF ac[company.id] <= company.max_concurrent_calls
    THEN [ok |-> TRUE, active_calls |-> [ac EXCEPT ![company.id] = @ + 1]]
    ELSE [ok |-> FALSE, active_calls |-> ac]

increment_active_calls(ac, company) ==
    IF ac[company.id] < company.max_concurrent_calls
    THEN [ok |-> TRUE, active_calls |-> [ac EXCEPT ![company.id] = @ + 1]]
    ELSE [ok |-> FALSE, active_calls |-> ac]

\* decrement_active_calls that gives no admission back
decrement_active_calls_forgotten(ac, company) ==
    IF ac[company.id] > company.max_concurrent_calls
    THEN [ac EXCEPT ![company.id] = @ - 1]
    ELSE ac

\* decrement_active_calls that gives every admission of the company back
decrement_active_calls_resets(ac, company) ==
    IF ac[company.id] > 0
    THEN [ac EXCEPT ![company.id] = 0]
    ELSE ac

\* decrement_active_calls that leaves the last admission in place
decrement_active_calls_keeps_one(ac, company) ==
    IF ac[company.id] > 1
    THEN [ac EXCEPT ![company.id] = @ - 1]
    ELSE ac

decrement_active_calls(ac, company) ==
    IF ac[company.id] > 0
    THEN [ac EXCEPT ![company.id] = @ - 1]
    ELSE ac

get_company_calls(ac, company_id) == ac[company_id]

\* --------------------------------------------------------- PhoneNumberPool
\* set.pop() takes an arbitrary element: `phone` is the caller's choice
\* among available_phones
\* acquire_phone that leaves the line in available_phones
acquire_phone_not_removed(avail, inuse, phone) ==
    [available_phones |-> avail, in_use_phones |-> inuse \cup {phone}]

acquire_phone(avail, inuse, phone) ==
    [available_phones |-> avail \ {phone},
     in_use_phones |-> inuse \cup {phone}]

\* release_phone without the membership test
release_phone_unchecked(avail, inuse, phone) ==
    [available_phones |-> avail \cup {phone}, in_use_phones |-> inuse \ {phone}]

\* release_phone testing the wrong set, so that it never releases
release_phone_wrong_set(avail, inuse, phone) ==
    IF phone \in avail
    THEN [available_phones |-> avail \cup {phone},
          in_use_phones |-> inuse \ {phone}]
    ELSE [available_phones |-> avail, in_use_phones |-> inuse]

\* release_phone that leaves the line in in_use_phones
release_phone_still_in_use(avail, inuse, phone) ==
    IF phone \in inuse
    THEN [available_phones |-> avail \cup {phone}, in_use_phones |-> inuse]
    ELSE [available_phones |-> avail, in_use_phones |-> inuse]

release_phone(avail, inuse, phone) ==
    IF phone \in inuse
    THEN [available_phones |-> avail \cup {phone},
          in_use_phones |-> inuse \ {phone}]
    ELSE [available_phones |-> avail, in_use_phones |-> inuse]

\* ------------------------------------------------------------- CallManager
NewCallRecord(call_id, company, scheduled_time) ==
    [id |-> call_id,
     company |-> company,
     status |-> SCHEDULED,
     scheduled_time |-> scheduled_time,
     outbound_phone |-> NoPhone,
     attempt_count |-> 0,
     max_attempts |-> DefaultMaxAttempts,
     notes |-> NotesUnset]

\* the heap after _reschedule_call(call_id) at clock t
\* _reschedule_call with a delay of 2 * attempt_count minutes
reschedule_call_linear(h, records, call_id, t) ==
    LET obj == records[call_id]
        delay == 2 * h[obj].attempt_count
    IN [h EXCEPT ![obj].scheduled_time = t + Minutes(delay),
                 ![obj].status = SCHEDULED]

reschedule_call(h, records, call_id, t) ==
    LET obj == records[call_id]
        delay == Pow2(h[obj].attempt_count)
    IN [h EXCEPT ![obj].scheduled_time = t + Minutes(delay),
                 ![obj].status = SCHEDULED]

\* _handle_failed_call rescheduling once more when the attempts are used up
handle_failed_call_one_more(h, records, call_id, t) ==
    LET obj == records[call_id]
    IN IF h[obj].attempt_count <= h[obj].max_attempts
       THEN reschedule_call(h, records, call_id, t)
       ELSE [h EXCEPT ![obj].notes = MaxRetryNote]

\* the heap after _handle_failed_call(call_id) at clock t
handle_failed_call(h, records, call_id, t) ==
    LET obj == records[call_id]
    IN IF h[obj].attempt_count < h[obj].max_attempts
       THEN reschedule_call(h, records, call_id, t)
       ELSE [h EXCEPT ![obj].notes = MaxRetryNote]

\* the status _simulate_phone_call writes
SimulatedOutcome(company_id, attempt) ==
    IF EndsWith(company_id, "4") THEN FAILED
    ELSE IF EndsWith(company_id, "1") /\ attempt = 1 THEN BUSY
    ELSE IF EndsWith(company_id, "2") /\ attempt = 2 THEN NO_ANSWER
    ELSE IF EndsWith(company_id, "3") /\ attempt = 3 THEN FAILED
    ELSE SUCCESS

Idle == [pc |-> "idle", call_id |-> <<>>, call_record |-> Absent,
         outbound_phone |-> NoPhone]

InFlight == {t \in Tasks : tasks[t].pc = "provider"}

\* a new coroutine takes the first free slot
FreeTask(t) == /\ tasks[t].pc = "idle"
               /\ \A u \in Tasks : u < t => tasks[u].pc # "idle"

Init ==
    /\ now = 0
    /\ available_phones = Phones
    /\ in_use_phones = {}
    /\ active_calls = [c \in CompanyIds |-> 0]
    /\ active_calls_keys = {}
    /\ heap = <<>>
    /\ call_records = [id \in CallIds |-> Absent]
    /\ call_history = [c \in CompanyIds |-> <<>>]
    /\ call_history_keys = {}
    /\ tasks = [t \in Tasks |-> Idle]

\* time passes between two steps of the event loop
Tick ==
    /\ now < MaxNow
    /\ now' = now + 1
    /\ UNCHANGED <<available_phones, in_use_phones, active_calls, heap,
                   call_records, call_history, tasks>>
    /\ UNCHANGED <<active_calls_keys, call_history_keys>>

\* schedule_call, `return None`
ScheduleCallRejected(company) ==
    /\ ~can_make_call(active_calls, company)
    /\ active_calls_keys' = getitem(active_calls_keys, company.id)
    /\ UNCHANGED <<now, available_phones, in_use_phones, active_calls, heap,
                   call_records, call_history, call_history_keys, tasks>>

\* schedule_call, `return call_id`
ScheduleCallAccepted(company, scheduled_time) ==
    /\ can_make_call(active_calls, company)
    /\ Len(heap) < MaxRecords
    /\ LET call_id == CallId(company, now)
       IN /\ heap' = Append(heap, NewCallRecord(call_id, company, scheduled_time))
          /\ call_records' = [call_records EXCEPT ![call_id] = Len(heap) + 1]
    /\ active_calls_keys' = getitem(active_calls_keys, company.id)
    /\ UNCHANGED <<now, available_phones, in_use_phones, active_calls,
                   call_history, call_history_keys, tasks>>

\* attempts executed so far: every one incremented one attempt_count
RECURSIVE SumAttempts(_)
SumAttempts(n) ==
    IF n = 0 THEN 0 ELSE heap[n].attempt_count + SumAttempts(n - 1)

Executed == SumAttempts(Len(heap))

\* the driver calls execute_call with an id schedule_call returned
Executable(call_id) == call_records[call_id] # Absent

\* execute_call, increment_active_calls refused: reschedule and return
ExecuteCallNotAdmitted(call_id) ==
    /\ Executable(call_id)
    /\ LET call_record == call_records[call_id]
           adm == increment_active_calls(active_calls, heap[call_record].company)
       IN /\ ~adm.ok
          /\ active_calls' = adm.active_calls
          /\ active_calls_keys' =
                getitem(active_calls_keys, heap[call_record].company.id)
          /\ heap' = reschedule_call(heap, call_records, call_id, now)
    /\ UNCHANGED <<now, available_phones, in_use_phones, call_records,
                   call_history, call_history_keys, tasks>>

\* execute_call, admitted but acquire_phone returned None
ExecuteCallNoPhone(call_id) ==
    /\ Executable(call_id)
    /\ LET call_record == call_records[call_id]
           company == heap[call_record].company
           adm == increment_active_calls(active_calls, company)
       IN /\ adm.ok
          /\ available_phones = {}
          /\ active_calls' = decrement_active_calls(adm.active_calls, company)
          /\ active_calls_keys' = getitem(active_calls_keys, company.id)
          /\ heap' = reschedule_call(heap, call_records, call_id, now)
    /\ UNCHANGED <<now, available_phones, in_use_phones, call_records,
                   call_history, call_history_keys, tasks>>

\* execute_call, admitted and a phone acquired: up to the provider call
ExecuteCallAdmitted(t, call_id) ==
    /\ FreeTask(t)
    /\ Executable(call_id)
    /\ LET call_record == call_records[call_id]
           company == heap[call_record].company
           adm == increment_active_calls(active_calls, company)
       IN /\ adm.ok
          /\ \E outbound_phone \in available_phones :
                LET pool == acquire_phone(available_phones, in_use_phones,
                                          outbound_phone)
                IN /\ available_phones' = pool.available_phones
                   /\ in_use_phones' = pool.in_use_phones
                   /\ heap' = [heap EXCEPT
                                 ![call_record].outbound_phone = outbound_phone,
                                 ![call_record].status = IN_PROGRESS,
                                 ![call_record].attempt_count = @ + 1]
                   /\ tasks' = [tasks EXCEPT ![t] =
                                 [pc |-> "provider", call_id |-> call_id,
                                  call_record |-> call_record,
                                  outbound_phone |-> outbound_phone]]
          /\ active_calls' = adm.active_calls
          /\ active_calls_keys' = getitem(active_calls_keys, company.id)
    /\ UNCHANGED <<now, call_records, call_history, call_history_keys>>

\* the same, for a driver that executes at most MaxExecuted attempts
ExecuteCallBegin(t, call_id) ==
    /\ Executed < MaxExecuted
    /\ ExecuteCallAdmitted(t, call_id)

\* the `finally` block of execute_call
Cleanup(t) ==
    LET pool == release_phone(available_phones, in_use_phones,
                              tasks[t].outbound_phone)
    IN /\ available_phones' = pool.available_phones
       /\ in_use_phones' = pool.in_use_phones
       /\ active_calls' = decrement_active_calls(
                              active_calls, heap[tasks[t].call_record].company)
       /\ active_calls_keys' =
             getitem(active_calls_keys,
                     heap[tasks[t].call_record].company.id)
       /\ tasks' = [tasks EXCEPT ![t] = Idle]

\* execute_call from the provider's return with `status` to its own return
ProviderReturned(t, status) ==
    /\ tasks[t].pc = "provider"
    /\ LET call_record == tasks[t].call_record
           call_id == tasks[t].call_id
           h1 == [heap EXCEPT ![call_record].status = status]
       IN /\ heap' = IF h1[call_record].status \in FailureStatuses
                     THEN handle_failed_call(h1, call_records, call_id, now)
                     ELSE h1
          /\ call_history' =
                [call_history EXCEPT ![heap[call_record].company.id] =
                                         Append(@, call_record)]
          /\ call_history_keys' =
                getitem(call_history_keys, heap[call_record].company.id)
    /\ Cleanup(t)
    /\ UNCHANGED <<now, call_records>>

\* execute_call when the provider raises: the `except Exception` branch
ProviderRaised(t) ==
    /\ tasks[t].pc = "provider"
    /\ LET call_record == tasks[t].call_record
           call_id == tasks[t].call_id
           h1 == [heap EXCEPT ![call_record].status = FAILED]
       IN /\ heap' = handle_failed_call(h1, call_records, call_id, now)
          /\ Cleanup(t)
    /\ UNCHANGED <<now, call_records, call_history, call_history_keys>>

\* the reference provider: _simulate_phone_call
SimulatedCall(t) ==
    /\ tasks[t].pc = "provider"
    /\ LET r == heap[tasks[t].call_record]
       IN ProviderReturned(t, SimulatedOutcome(r.company.id, r.attempt_count))

\* the scheduled_time the driver passes: datetime.now()
ScheduleTimes == {now}

Schedule ==
    \/ \E c \in Companies : ScheduleCallRejected(c)
    \/ \E c \in Companies, st \in ScheduleTimes : ScheduleCallAccepted(c, st)

ExecuteStart ==
    \/ \E id \in CallIds : ExecuteCallNotAdmitted(id)
    \/ \E id \in CallIds : ExecuteCallNoPhone(id)
    \/ \E t \in Tasks, id \in CallIds : ExecuteCallBegin(t, id)

\* the program as written, with the reference provider
Next ==
    \/ Tick
    \/ Schedule
    \/ ExecuteStart
    \/ \E t \in Tasks : SimulatedCall(t)

Spec == Init /\ [][Next]_vars

\* the manager with any provider: one that returns any outcome, or raises
NextProvider ==
    \/ Tick
    \/ Schedule
    \/ ExecuteStart
    \/ \E t \in Tasks, s \in {SUCCESS, BUSY, NO_ANSWER, FAILED} : ProviderReturned(t, s)
    \/ \E t \in Tasks : ProviderRaised(t)

SpecProvider == Init /\ [][NextProvider]_vars

\* ------------------------------------------------- the pool used directly
\* a token no pool was created with
ForeignPhone == "0000000000"

\* acquire_phone called by a client other than execute_call
PoolAcquire ==
    /\ \E phone \in available_phones :
          LET pool == acquire_phone(available_phones, in_use_phones, phone)
          IN /\ available_phones' = pool.available_phones
             /\ in_use_phones' = pool.in_use_phones
    /\ UNCHANGED <<now, active_calls, active_calls_keys, heap, call_records,
                   call_history, call_history_keys, tasks>>

\* acquire_phone on an empty pool: `return None`
PoolAcquireNone ==
    /\ available_phones = {}
    /\ UNCHANGED vars

\* release_phone called by a client other than execute_call, with any token
PoolRelease(phone) ==
    /\ LET pool == release_phone(available_phones, in_use_phones, phone)
       IN /\ available_phones' = pool.available_phones
          /\ in_use_phones' = pool.in_use_phones
    /\ UNCHANGED <<now, active_calls, active_calls_keys, heap, call_records,
                   call_history, call_history_keys, tasks>>

\* the pool under all its callers; nothing the pool does reads the clock,
\* which stands still here
NextPool ==
    \/ Schedule
    \/ ExecuteStart
    \/ \E t \in Tasks : SimulatedCall(t)
    \/ PoolAcquire
    \/ PoolAcquireNone
    \/ \E phone \in Phones \cup {ForeignPhone} : PoolRelease(phone)

SpecPool == Init /\ [][NextPool]_vars

\* ------------------------------------------------------------------ claims

\* C1: in every reachable state, whatever the interleaving of schedule_call
\* and execute_call, every company's active-call count is at least 0 and at
\* most the company's max_concurrent_calls.
C1_ActiveWithinCeiling ==
    \A c \in Companies :
        /\ active_calls[c.id] >= 0
        /\ active_calls[c.id] <= c.max_concurrent_calls

\* two execute_call coroutines of one company are suspended together and
\* fill its ceiling
C1_Witness ==
    /\ active_calls[CompanyA.id] = CompanyA.max_concurrent_calls
    /\ Cardinality(InFlight) = 2
    /\ \A t \in InFlight : heap[tasks[t].call_record].company = CompanyA

\* C2: after any sequence of acquire_phone and release_phone calls, made by
\* execute_call or directly, available_phones and in_use_phones are disjoint
\* and together are exactly the lines the pool was created with.
C2_PoolPartition ==
    /\ available_phones \cap in_use_phones = {}
    /\ available_phones \cup in_use_phones = Phones
    /\ Cardinality(available_phones) + Cardinality(in_use_phones)
          = Cardinality(Phones)

\* a line is out while no coroutine holds one (a direct acquire), after an
\* executed attempt released its line
C2_Witness ==
    /\ in_use_phones # {}
    /\ available_phones # {}
    /\ InFlight = {}
    /\ \E c \in CompanyIds : Len(call_history[c]) > 0

\* C3: no phone line is held by two suspended attempts at once, every held
\* line is recorded in use, and the attempts in flight never outnumber the
\* lines of the pool.
C3_ExclusiveLines ==
    /\ \A t, u \in InFlight :
          t # u => tasks[t].outbound_phone # tasks[u].outbound_phone
    /\ \A t \in InFlight : tasks[t].outbound_phone \in in_use_phones
    /\ Cardinality(InFlight) <= Cardinality(Phones)

\* every line is held, by attempts of two companies, and a further
\* invocation on the first company's record (admitted: its count is below
\* the ceiling) found no line and rescheduled the record in flight
C3_Witness ==
    /\ Cardinality(InFlight) = Cardinality(Phones)
    /\ available_phones = {}
    /\ active_calls[CompanyA.id] = 1
    /\ \E t \in InFlight :
          /\ heap[tasks[t].call_record].company = CompanyA
          /\ heap[tasks[t].call_record].attempt_count = 1
          /\ heap[tasks[t].call_record].status = SCHEDULED
          /\ call_records[tasks[t].call_id] = tasks[t].call_record

\* C4: a record's attempt_count never exceeds its max_attempts, whatever
\* execute_call invocations the driver issues on it.
C4_AttemptBound ==
    \A i \in Objects : heap[i].attempt_count <= heap[i].max_attempts

\* a record whose attempts are used up and whose last outcome is a failure
Exhausted(i) ==
    /\ heap[i].attempt_count = heap[i].max_attempts
    /\ heap[i].status \in FailureStatuses

\* C5: once a record's attempt_count equals max_attempts and its last
\* outcome is BUSY, NO_ANSWER or FAILED, no later operation sets its status
\* back to SCHEDULED or changes its scheduled_time.
C5_ExhaustedStaysTerminal ==
    [][\A i \in Objects :
          Exhausted(i) =>
              /\ heap'[i].status # SCHEDULED
              /\ heap'[i].scheduled_time = heap[i].scheduled_time]_vars

\* C6: once a record's status is SUCCESS, no later operation changes its
\* status or its attempt_count.
C6_SuccessAbsorbing ==
    [][\A i \in Objects :
          heap[i].status = SUCCESS =>
              /\ heap'[i].status = SUCCESS
              /\ heap'[i].attempt_count = heap[i].attempt_count]_vars

\* the lines the suspended attempts hold
HeldPhones == {tasks[t].outbound_phone : t \in InFlight}

\* the suspended attempts of a company
InFlightOf(company_id) ==
    {t \in InFlight : heap[tasks[t].call_record].company.id = company_id}

\* attempts that ran to their end: appended to a history
RECURSIVE Appended(_)
Appended(ids) ==
    IF ids = {} THEN 0
    ELSE LET c == CHOOSE x \in ids : TRUE
         IN Len(call_history[c]) + Appended(ids \ {c})

\* C7: an attempt that acquired a line releases that line before
\* execute_call returns, on every exit path: the lines in use are exactly
\* the lines suspended attempts hold, so with no execute_call in flight
\* in_use_phones is empty and every line is available.
C7_LinesReleased ==
    /\ in_use_phones = HeldPhones
    /\ available_phones = Phones \ HeldPhones
    /\ InFlight = {} => (in_use_phones = {} /\ available_phones = Phones)

\* nothing is in flight after attempts ended on both exit paths: one
\* returned (it is in a history), one raised (counted, in no history)
C7_Witness ==
    /\ InFlight = {}
    /\ Appended(CompanyIds) > 0
    /\ Executed > Appended(CompanyIds)

\* C8: every admission execute_call took is given back when the attempt
\* ends: a company's active-call count is the number of its suspended
\* attempts, and is 0 for every company when no execute_call is in flight.
C8_AdmissionsReturned ==
    /\ \A c \in Companies :
          active_calls[c.id] = Cardinality(InFlightOf(c.id))
    /\ InFlight = {} => \A c \in Companies : active_calls[c.id] = 0

\* two attempts of the company with ceiling 2 ran on the two lines and both
\* finished
C8_Witness ==
    /\ InFlight = {}
    /\ Len(call_history[CompanyA.id]) = 2
    /\ active_calls[CompanyA.id] = 0
    /\ available_phones = Phones

\* C9: when the provider raises, the record of the attempt becomes FAILED
\* and ends as the retry policy leaves a FAILED attempt: SCHEDULED when its
\* attempt_count is below max_attempts, else FAILED with the exhaustion note.
C9_RaiseFollowsRetryPolicy ==
    [][\A t \in Tasks :
          ProviderRaised(t) =>
              LET r == tasks[t].call_record
              IN IF heap[r].attempt_count < heap[r].max_attempts
                 THEN heap'[r].status = SCHEDULED
                 ELSE /\ heap'[r].status = FAILED
                      /\ heap'[r].notes = MaxRetryNote]_vars

\* C10: schedule_call creates a record exactly when the company's count is
\* below its ceiling (it is refused exactly when it is not), and an accepted
\* schedule_call reserves nothing: the active-call counts, the pool and the
\* attempts in flight are as before.
C10_ScheduleReservesNothing ==
    /\ [](\A c \in Companies :
            /\ ENABLED ScheduleCallRejected(c)
                 <=> ~(active_calls[c.id] < c.max_concurrent_calls)
            /\ Len(heap) < MaxRecords =>
                 (ENABLED ScheduleCallAccepted(c, now)
                    <=> active_calls[c.id] < c.max_concurrent_calls))
    /\ [][Len(heap') > Len(heap) =>
            LET new == heap'[Len(heap')]
            IN /\ active_calls[new.company.id] < new.company.max_concurrent_calls
               /\ active_calls' = active_calls
               /\ available_phones' = available_phones
               /\ in_use_phones' = in_use_phones
               /\ tasks' = tasks]_vars

\* two calls are scheduled, under two ids, for the company whose ceiling
\* is 1, and no count moved
C10_Witness ==
    /\ Len(heap) = 2
    /\ \A i \in Objects : heap[i].company = CompanyD /\ heap[i].status = SCHEDULED
    /\ heap[1].id # heap[2].id
    /\ active_calls[CompanyD.id] = 0

\* ------------------------------------------------------------- the queries
\* get_call_status for an id schedule_call returned
get_call_status(h, records, call_id) == h[records[call_id]].status

\* get_company_call_history emptying the history it returns
get_company_call_history_pop(hist, keys, company_id) ==
    [result |-> hist[company_id],
     call_history |-> [hist EXCEPT ![company_id] = <<>>],
     call_history_keys |-> keys \ {company_id}]

\* get_company_call_history: its result, and the defaultdict after the lookup
get_company_call_history(hist, keys, company_id) ==
    [result |-> hist[company_id],
     call_history |-> hist,
     call_history_keys |-> getitem(keys, company_id)]

\* get_active_calls: its result, and the tracker's defaultdict after the
\* lookup get_company_calls makes
get_active_calls(ac, keys, company_id) ==
    [result |-> get_company_calls(ac, company_id),
     active_calls |-> ac,
     active_calls_keys |-> getitem(keys, company_id)]

GetCallStatus(call_id) ==
    /\ Executable(call_id)
    /\ get_call_status(heap, call_records, call_id) \in
          FailureStatuses \cup {SCHEDULED, IN_PROGRESS, SUCCESS}
    /\ UNCHANGED vars

GetCompanyCallHistory(company_id) ==
    /\ LET q == get_company_call_history(call_history, call_history_keys,
                                         company_id)
       IN /\ call_history' = q.call_history
          /\ call_history_keys' = q.call_history_keys
    /\ UNCHANGED <<now, available_phones, in_use_phones, active_calls,
                   active_calls_keys, heap, call_records, tasks>>

GetActiveCalls(company_id) ==
    /\ LET q == get_active_calls(active_calls, active_calls_keys, company_id)
       IN /\ active_calls' = q.active_calls
          /\ active_calls_keys' = q.active_calls_keys
    /\ UNCHANGED <<now, available_phones, in_use_phones, heap, call_records,
                   call_history, call_history_keys, tasks>>

Query ==
    \/ \E call_id \in CallIds : GetCallStatus(call_id)
    \/ \E company_id \in CompanyIds : GetCompanyCallHistory(company_id)
    \/ \E company_id \in CompanyIds : GetActiveCalls(company_id)

\* the program as written, queried between any two of its steps
NextQuery ==
    \/ Tick
    \/ Schedule
    \/ ExecuteStart
    \/ \E t \in Tasks : SimulatedCall(t)
    \/ Query

SpecQuery == Init /\ [][NextQuery]_vars

\* C11: every accepted schedule_call stores its new record under an id no
\* earlier record is stored under, so every record ever created stays
\* stored under its id and the stored records are as many as the accepted
\* schedule_call invocations.
C11_EveryRecordStored ==
    /\ \A i \in Objects : call_records[heap[i].id] = i
    /\ Cardinality({id \in CallIds : call_records[id] # Absent}) = Len(heap)

\* the attempt of coroutine t ends in this step
Returns(t) == tasks[t].pc = "provider" /\ tasks'[t].pc = "idle"

\* no other coroutine is suspended on the record of coroutine t
AloneOnRecord(t) ==
    \A u \in InFlight : u # t => tasks[u].call_record # tasks[t].call_record

C14_ReleaseOfFreeTokenNoOp ==
    [][/\ \A phone \in Phones \cup {ForeignPhone} :
             (PoolRelease(phone) /\ phone \notin in_use_phones) =>
                 UNCHANGED <<available_phones, in_use_phones>>
       /\ \A t \in Tasks :
             (Returns(t) /\ tasks[t].outbound_phone \notin in_use_phones) =>
                 UNCHANGED <<available_phones, in_use_phones>>]_vars

\* an attempt is in flight whose line another client has already released:
\* the release in its finally block will be a second release
C14_Witness ==
    \E t \in InFlight :
       /\ tasks[t].outbound_phone \notin in_use_phones
       /\ tasks[t].outbound_phone \in available_phones

\* C15: an execute_call whose admission fails because the company is at
\* its ceiling leaves the pool, attempt_count, the active-call counts, the
\* histories and the attempts in flight unchanged, and leaves the record
\* SCHEDULED with scheduled_time = now + 2^attempt_count minutes.
C15_NotAdmittedOnlyReschedules ==
    [][\A call_id \in CallIds :
          ExecuteCallNotAdmitted(call_id) =>
              LET r == call_records[call_id]
              IN /\ UNCHANGED <<available_phones, in_use_phones, active_calls,
                                call_history, call_records, tasks>>
                 /\ heap'[r].attempt_count = heap[r].attempt_count
                 /\ heap'[r].outbound_phone = heap[r].outbound_phone
                 /\ heap'[r].status = SCHEDULED
                 /\ heap'[r].scheduled_time =
                        now + Minutes(Pow2(heap[r].attempt_count))
                 /\ \A i \in Objects \ {r} : heap'[i] = heap[i]]_vars

\* a never attempted record was rescheduled while its company is at its
\* ceiling and a line is available
C15_Witness ==
    /\ available_phones # {}
    /\ \E i \in Objects :
          /\ active_calls[heap[i].company.id] =
                heap[i].company.max_concurrent_calls
          /\ \A t \in InFlight : tasks[t].call_record # i
          /\ heap[i].attempt_count = 0
          /\ heap[i].status = SCHEDULED
          /\ heap[i].scheduled_time = now + Minutes(1)

\* C16: an execute_call that is admitted but finds no available line gives
\* the admission back (every active-call count is as before the call),
\* leaves the record SCHEDULED with scheduled_time = now + 2^attempt_count
\* minutes, and leaves attempt_count, the pool, the histories and the
\* attempts in flight unchanged.
C16_NoPhoneReleasesAdmission ==
    [][\A call_id \in CallIds :
          ExecuteCallNoPhone(call_id) =>
              LET r == call_records[call_id]
              IN /\ UNCHANGED <<available_phones, in_use_phones, active_calls,
                                call_history, call_records, tasks>>
                 /\ heap'[r].attempt_count = heap[r].attempt_count
                 /\ heap'[r].status = SCHEDULED
                 /\ heap'[r].scheduled_time =
                        now + Minutes(Pow2(heap[r].attempt_count))
                 /\ \A i \in Objects \ {r} : heap'[i] = heap[i]]_vars

\* both lines are held, the company is below its ceiling, and the record of
\* an attempt in flight was rescheduled by a further execute_call
C16_Witness ==
    /\ available_phones = {}
    /\ active_calls[CompanyD.id] = 1
    /\ active_calls[CompanyA.id] < CompanyA.max_concurrent_calls
    /\ \E t \in InFlight :
          LET r == tasks[t].call_record
          IN /\ heap[r].company = CompanyA
             /\ heap[r].attempt_count = 1
             /\ heap[r].status = SCHEDULED
             /\ heap[r].scheduled_time = now + Minutes(Pow2(1))

\* C17: when an executed attempt ends with BUSY, NO_ANSWER or FAILED, its
\* record is rescheduled (SCHEDULED, scheduled_time = now + 2^attempt_count
\* minutes) if attempt_count < max_attempts, and otherwise keeps the failure
\* status and gets the exhaustion note; when it ends with SUCCESS the record
\* is SUCCESS and its scheduled_time is untouched.
C17_RetryPolicyAfterAttempt ==
    [][\A t \in Tasks, s \in FailureStatuses \cup {SUCCESS} :
          ProviderReturned(t, s) =>
              LET r == tasks[t].call_record
              IN IF s = SUCCESS
                 THEN /\ heap'[r].status = SUCCESS
                      /\ heap'[r].scheduled_time = heap[r].scheduled_time
                 ELSE IF heap[r].attempt_count < heap[r].max_attempts
                 THEN /\ heap'[r].status = SCHEDULED
                      /\ heap'[r].scheduled_time =
                             now + Minutes(Pow2(heap[r].attempt_count))
                 ELSE /\ heap'[r].status = s
                      /\ heap'[r].notes = MaxRetryNote]_vars

\* record i is rescheduled in this step
Rescheduled(i) ==
    \/ heap'[i].scheduled_time # heap[i].scheduled_time
    \/ heap[i].status # SCHEDULED /\ heap'[i].status = SCHEDULED

\* C18: every reschedule sets scheduled_time to now + 2^attempt_count
\* minutes, attempt_count being the record's count at that moment; the
\* delay is at least one minute and the new scheduled_time is strictly
\* later than now.
C18_BackoffDelay ==
    [][\A i \in Objects :
          Rescheduled(i) =>
              /\ heap'[i].attempt_count = heap[i].attempt_count
              /\ heap'[i].status = SCHEDULED
              /\ heap'[i].scheduled_time =
                     now + Minutes(Pow2(heap[i].attempt_count))
              /\ heap'[i].scheduled_time >= now + Minutes(1)
              /\ heap'[i].scheduled_time > now]_vars

\* a record rescheduled four minutes ahead after its second attempt failed
C18_Witness ==
    \E i \in Objects :
       /\ \A t \in InFlight : tasks[t].call_record # i
       /\ heap[i].attempt_count = 2
       /\ heap[i].status = SCHEDULED
       /\ heap[i].scheduled_time = now + Minutes(4)

\* the executed attempts of the records of company_id among heap[1..n]
RECURSIVE AttemptsOf(_, _)
AttemptsOf(n, company_id) ==
    IF n = 0 THEN 0
    ELSE (IF heap[n].company.id = company_id
          THEN heap[n].attempt_count ELSE 0) + AttemptsOf(n - 1, company_id)

\* C19: every executed attempt appends one entry to its company's history
\* before execute_call returns, whatever its outcome, and a rejected
\* invocation appends nothing: whenever no execute_call is in flight, the
\* length of a company's history is the number of executed attempts of
\* that company's records.
C19_HistoryCountsAttempts ==
    InFlight = {} =>
        \A company_id \in CompanyIds :
           Len(call_history[company_id]) = AttemptsOf(Len(heap), company_id)

\* C20: attempts on one record never overlap: no two coroutines are
\* suspended in the provider for the same call id or on the same record.
C20_OneAttemptPerRecord ==
    \A t, u \in InFlight :
       t # u => /\ tasks[t].call_id # tasks[u].call_id
                /\ tasks[t].call_record # tasks[u].call_record

C21_InProgressIsInFlight ==
    /\ \A i \in Objects :
          heap[i].status = IN_PROGRESS =>
              /\ \E t \in InFlight :
                    /\ tasks[t].call_record = i
                    /\ tasks[t].outbound_phone \in in_use_phones
              /\ active_calls[heap[i].company.id] >= 1
    /\ InFlight = {} => \A i \in Objects : heap[i].status # IN_PROGRESS

\* a record is IN_PROGRESS in its second attempt while an attempt on
\* another record has just ended
C21_Witness ==
    /\ Cardinality(InFlight) = 1
    /\ \E i, j \in Objects :
          /\ i # j
          /\ heap[i].status = IN_PROGRESS
          /\ heap[i].attempt_count = 2
          /\ heap[j].attempt_count = 1
          /\ heap[j].status \in FailureStatuses \cup {SCHEDULED, SUCCESS}

\* the driver of the claim: it calls execute_call with the ids of the
\* records whose status is SCHEDULED, and with no other id
DriverExecute(call_id) ==
    /\ Executable(call_id)
    /\ heap[call_records[call_id]].status = SCHEDULED
    /\ \/ ExecuteCallNotAdmitted(call_id)
       \/ ExecuteCallNoPhone(call_id)
       \/ \E t \in Tasks : ExecuteCallAdmitted(t, call_id)

NextDriver ==
    \/ Tick
    \/ Schedule
    \/ \E id \in CallIds : DriverExecute(id)
    \/ \E t \in Tasks : SimulatedCall(t)

\* the driver keeps calling execute_call for every such id, and the
\* reference provider returns: asyncio.sleep(1) ends
SpecDriver ==
    /\ Init
    /\ [][NextDriver]_vars
    /\ \A id \in CallIds : WF_vars(DriverExecute(id))
    /\ \A t \in Tasks : WF_vars(SimulatedCall(t))

\* SUCCESS, or a failure status with the attempts used up
Terminal(i) ==
    \/ heap[i].status = SUCCESS
    \/ /\ heap[i].status \in FailureStatuses
       /\ heap[i].attempt_count = heap[i].max_attempts

\* C22: under a driver that keeps calling execute_call for every record
\* whose status is SCHEDULED and for no other, with a provider that always
\* returns, every record ever created reaches a terminal status (SUCCESS,
\* or a failure status with attempt_count = max_attempts), no record is
\* attempted more than max_attempts times, and every execute_call that is
\* suspended in the provider returns.
C22_EveryRecordTerminates ==
    /\ \A i \in 1..MaxRecords :
          (i \in Objects) ~> (i \in Objects /\ Terminal(i))
    /\ [](\A i \in Objects : heap[i].attempt_count <= heap[i].max_attempts)
    /\ \A t \in Tasks : (tasks[t].pc = "provider") ~> (tasks[t].pc = "idle")

=============================================================================
